---- MODULE Spec2Model ----
(***************************************************************************)
(* Model of the INA226 CircuitPython driver (src/ina226.py).               *)
(*                                                                         *)
(* The device is a file of six 16-bit registers reached over a two-wire    *)
(* bus.  A bus transaction either succeeds or raises a transport error     *)
(* (OSError from the bus device); a failed write leaves the device         *)
(* register as it was.  Every driver operation is one action; the action   *)
(* records the bus transactions it issued, in order, in `log`.             *)
(*                                                                         *)
(* Scaled readings are products of a raw integer and a least-significant-  *)
(* bit weight.  The weights are kept as integers counted in a fixed unit   *)
(* (shunt voltage: 25 units of 0.1 uV, bus voltage: 125 units of 10 uV,    *)
(* current_lsb / power_lsb: caller-supplied counts of 0.1), so a reading   *)
(* is the exact product; binary floating-point rounding of the Python      *)
(* product is not represented.                                             *)
(***************************************************************************)
EXTENDS Integers, Sequences, FiniteSets, TLC

VARIABLES
    dev,            \* device registers: [0..5 -> 0..65535]
    constructed,    \* TRUE once INA226.__init__ has returned
    cal_value,      \* INA226._cal_value
    current_lsb,    \* INA226._current_lsb (count of 0.1 mA)
    power_lsb,      \* INA226._power_lsb   (count of 0.1 W)
    log,            \* bus transactions issued by the last driver operation
    last,           \* the last driver operation, its argument and outcome
    pre,            \* device/handle contents right before the last operation
    lastSet,        \* value most recently passed to the calibration setter
    lastLsb,        \* values the caller most recently assigned to current_lsb / power_lsb
    nops            \* number of driver operations performed

vars == <<dev, constructed, cal_value, current_lsb, power_lsb, log, last, pre,
          lastSet, lastLsb, nops>>

---------------------------------------------------------------------------
(* Bounds of the model *)

\* driver operations per behaviour
MaxOps == 3
\* how far beyond the capacity of a bit field the written values range
MaxOver == 1

---------------------------------------------------------------------------
(* Register addresses and configuration selectors *)

REG_CONFIG == 0
REG_SHUNTVOLTAGE == 1
REG_BUSVOLTAGE == 2
REG_POWER == 3
REG_CURRENT == 4
REG_CALIBRATION == 5

VBUSCT_1MS == 4
AVG_256 == 5
VBUSCT_2MS == 5
VSHCT_2MS == 5

Regs == REG_CONFIG .. REG_CALIBRATION
Word == 0 .. 65535

\* LSB weights of the voltage registers
\* 0.0000025 V  = 25 units of 0.1 uV
SHUNT_LSB == 25
\* the 4 mV weight of the bus voltage register of the INA219, in units of 10 uV
BUS_LSB_INA219 == 400
\* 0.00125 V = 125 units of 10 uV
BUS_LSB == 125

---------------------------------------------------------------------------
(* Integer helpers *)

RECURSIVE Pow2(_)
Pow2(n) == IF n = 0 THEN 1 ELSE 2 * Pow2(n - 1)

RECURSIVE BitAnd(_, _)
BitAnd(a, b) ==
    IF a = 0 \/ b = 0 THEN 0
    ELSE (IF a % 2 = 1 /\ b % 2 = 1 THEN 1 ELSE 0) + 2 * BitAnd(a \div 2, b \div 2)

RECURSIVE BitOr(_, _)
BitOr(a, b) ==
    IF a = 0 THEN b
    ELSE IF b = 0 THEN a
    ELSE (IF a % 2 = 1 \/ b % 2 = 1 THEN 1 ELSE 0) + 2 * BitOr(a \div 2, b \div 2)

\* bit i of x
Bit(x, i) == (x \div Pow2(i)) % 2

---------------------------------------------------------------------------
(* Wire format: two bytes, most significant first *)

\* struct.pack(">H", v) / the byte loop of RWBits.__set__ (reg & 0xFF, reg >>= 8)
ToBytes(v) == << (v \div 256) % 256, v % 256 >>

\* bytes to unsigned integer, first byte most significant
FromBytes(b) == b[1] * 256 + b[2]

\* struct.unpack(">H", b)
UnpackUnsigned(b) == FromBytes(b)

\* struct.unpack(">h", b)
UnpackSigned(b) ==
    LET u == FromBytes(b) IN IF u > 32767 THEN u - 65536 ELSE u

---------------------------------------------------------------------------
(* Bus transactions as they are recorded *)

Rd(reg, ok, data) == [op |-> "read", reg |-> reg, data |-> data, ok |-> ok]
Wr(reg, ok, data) == [op |-> "write", reg |-> reg, data |-> data, ok |-> ok]

\* the first n entries of a sequence
Take(s, n) == SubSeq(s, 1, IF n < Len(s) THEN n ELSE Len(s))

\* A planned list of transactions cut at the failing one (fail = 0: none
\* fails).  The failing transaction is attempted, marked not ok, and nothing
\* after it is issued; a failed read delivers no data.
Issue(plan, fail) ==
    IF fail = 0 \/ fail > Len(plan) THEN plan
    ELSE [i \in 1 .. fail |->
            IF i < fail THEN plan[i]
            ELSE [plan[i] EXCEPT !.ok = FALSE,
                                 !.data = IF plan[i].op = "read" THEN <<>> ELSE @]]

Failed(fail, plan) == fail # 0 /\ fail <= Len(plan)

---------------------------------------------------------------------------
(* The device as seen from the bus *)

\* the device after the successful writes of a list of transactions
RECURSIVE Apply(_, _)
Apply(d, lg) ==
    IF lg = <<>> THEN d
    ELSE LET e == Head(lg) IN
         Apply(IF e.op = "write" /\ e.ok
                 THEN [d EXCEPT ![e.reg] = FromBytes(e.data)] ELSE d,
               Tail(lg))

---------------------------------------------------------------------------
(* Register descriptors of the register library, as the driver uses them *)

\* bit_mask of a field: ((1 << num_bits) - 1) << lowest_bit
BitMask(w, o) == (Pow2(w) - 1) * Pow2(o)

\* RWBits.__get__: mask, shift down, sign-extend when the field is signed
ReadBits(content, w, o, signed) ==
    LET raw == BitAnd(content, BitMask(w, o)) \div Pow2(o)
        sign_bit == IF signed THEN Pow2(w - 1) ELSE 0
    IN  IF BitAnd(raw, sign_bit) # 0 THEN raw - 2 * sign_bit ELSE raw

\* RWBits.__set__: value <<= lowest_bit; reg &= ~bit_mask; reg |= value.
\* The result is the integer before it is cut into the two bytes written.
WriteBits(content, w, o, v) ==
    BitOr(content - BitAnd(content, BitMask(w, o)), v * Pow2(o))

\* transactions of RWBits.__get__ on register reg of device d
GetBitsPlan(d, reg) == << Rd(reg, TRUE, ToBytes(d[reg])) >>

\* transactions of RWBits.__set__: read the register, write it back changed
SetBitsPlan(d, reg, w, o, v) ==
    << Rd(reg, TRUE, ToBytes(d[reg])),
       Wr(reg, TRUE, ToBytes(WriteBits(FromBytes(ToBytes(d[reg])), w, o, v))) >>

---------------------------------------------------------------------------
(* Configuration fields of the driver *)

Fields == {"reset", "num_averages", "bus_conv_time", "shunt_conv_time", "mode"}

FieldWidth(f) ==
    CASE f = "reset" -> 1
      [] f = "num_averages" -> 3
      [] f = "bus_conv_time" -> 3
      [] f = "shunt_conv_time" -> 3
      [] f = "mode" -> 3

\* FieldOffset with num_averages declared one bit too low
FieldOffset_Shifted(f) ==
    CASE f = "reset" -> 15
      [] f = "num_averages" -> 8
      [] f = "bus_conv_time" -> 6
      [] f = "shunt_conv_time" -> 3
      [] f = "mode" -> 0

FieldOffset(f) ==
    CASE f = "reset" -> 15
      [] f = "num_averages" -> 9
      [] f = "bus_conv_time" -> 6
      [] f = "shunt_conv_time" -> 3
      [] f = "mode" -> 0

\* FieldSigned with every field declared signed
FieldSigned_All(f) == TRUE

\* no field asks for sign extension (the fifth argument of each declaration
\* selects most-significant-byte-first order, which ToBytes/FromBytes model)
FieldSigned(f) == FALSE

\* the register every field lives in
FieldReg(f) == REG_CONFIG

SetFieldPlan(d, f, v) ==
    SetBitsPlan(d, FieldReg(f), FieldWidth(f), FieldOffset(f), v)

GetFieldPlan(d, f) == GetBitsPlan(d, FieldReg(f))

\* the three field writes of the constructor, each seeing the device as the
\* previous one left it
ConstructPlan(d) ==
    LET p1 == SetFieldPlan(d, "num_averages", AVG_256)
        d1 == Apply(d, p1)
        p2 == SetFieldPlan(d1, "bus_conv_time", VBUSCT_2MS)
        d2 == Apply(d1, p2)
        p3 == SetFieldPlan(d2, "shunt_conv_time", VSHCT_2MS)
    IN  p1 \o p2 \o p3

\* calibration setter: one write of the packed value
CalibrationPlan(d, v) == << Wr(REG_CALIBRATION, TRUE, ToBytes(v)) >>

\* CurrentPlan with the two transactions in the opposite order
CurrentPlan_ReadFirst(d, cal) ==
    << Rd(REG_CURRENT, TRUE, ToBytes(d[REG_CURRENT])),
       Wr(REG_CALIBRATION, TRUE, ToBytes(cal)) >>

\* current: re-assert the cached calibration, then read the current register
CurrentPlan(d, cal) ==
    << Wr(REG_CALIBRATION, TRUE, ToBytes(cal)) >>
    \o << Rd(REG_CURRENT, TRUE, ToBytes(Apply(d, << Wr(REG_CALIBRATION, TRUE, ToBytes(cal)) >>)[REG_CURRENT])) >>

\* PowerPlan without the calibration write
PowerPlan_NoReassert(d, cal) ==
    << Rd(REG_POWER, TRUE, ToBytes(d[REG_POWER])) >>

\* power: re-assert the cached calibration, then read the power register
PowerPlan(d, cal) ==
    << Wr(REG_CALIBRATION, TRUE, ToBytes(cal)) >>
    \o << Rd(REG_POWER, TRUE, ToBytes(Apply(d, << Wr(REG_CALIBRATION, TRUE, ToBytes(cal)) >>)[REG_POWER])) >>

ShuntVoltagePlan(d) == << Rd(REG_SHUNTVOLTAGE, TRUE, ToBytes(d[REG_SHUNTVOLTAGE])) >>

BusVoltagePlan(d) == << Rd(REG_BUSVOLTAGE, TRUE, ToBytes(d[REG_BUSVOLTAGE])) >>

\* the data a completed read delivered (the last transaction of the log)
ReadData(lg) == lg[Len(lg)].data

\* the device's calibration register at the moment the log's read of the
\* current or power register is issued; -1 when no such read is issued
CalAtRead(d, lg) ==
    LET idx == {i \in 1 .. Len(lg) :
                  lg[i].op = "read" /\ lg[i].reg \in {REG_POWER, REG_CURRENT}}
    IN  IF idx = {} THEN -1
        ELSE LET i == CHOOSE j \in idx : \A k \in idx : j <= k
             IN  Apply(d, Take(lg, i - 1))[REG_CALIBRATION]

---------------------------------------------------------------------------
(* State *)

NoOp == [op |-> "none", field |-> "", arg |-> 0, ret |-> "none", val |-> 0,
         calAtRead |-> -1]

Outcome(op, field, arg, failed, val, car) ==
    [op |-> op, field |-> field, arg |-> arg,
     ret |-> IF failed THEN "TransportError" ELSE "ok",
     val |-> IF failed THEN 0 ELSE val, calAtRead |-> car]

\* what `pre` keeps: the registers and handle fields before the operation and
\* the operation that came before it
Snapshot ==
    [cfg |-> dev[REG_CONFIG], calreg |-> dev[REG_CALIBRATION],
     cal |-> cal_value, clsb |-> current_lsb, plsb |-> power_lsb,
     op |-> last.op, field |-> last.field, arg |-> last.arg, ret |-> last.ret]

\* `pre` of a state no operation has led to
NoHistory(d) ==
    [cfg |-> d[REG_CONFIG], calreg |-> d[REG_CALIBRATION],
     cal |-> 0, clsb |-> 0, plsb |-> 0,
     op |-> "none", field |-> "", arg |-> 0, ret |-> "none"]

\* contents of the four data registers <<shunt, bus, power, current>> after a
\* conversion of the device
MeasureSamples ==
    { <<65436, 8000, 1200, 300>>, <<32767, 65535, 65535, 32768>> }

\* calibration values handed to the setter
CalValues == {500, 2048, 65535}

\* values the caller assigns to current_lsb / power_lsb (counts of 0.1)
LsbValues == {1, 3}

\* values written to a field of width w: all that fit, and MaxOver beyond
FieldValues(f) == 0 .. (Pow2(FieldWidth(f)) - 1 + MaxOver)

DeviceWith(cfg, sample, calreg) ==
    [r \in Regs |->
        CASE r = REG_CONFIG -> cfg
          [] r = REG_SHUNTVOLTAGE -> sample[1]
          [] r = REG_BUSVOLTAGE -> sample[2]
          [] r = REG_POWER -> sample[3]
          [] r = REG_CURRENT -> sample[4]
          [] r = REG_CALIBRATION -> calreg]

---------------------------------------------------------------------------
(* Driver operations *)

\* INA226.__init__: fresh handle fields, then the three configuration writes.
\* When a bus transaction fails the exception leaves the constructor and no
\* handle exists.
Construct(fail) ==
    /\ ~constructed
    /\ nops < MaxOps
    /\ LET plan == ConstructPlan(dev)
           lg == Issue(plan, fail)
       IN  /\ log' = lg
           /\ dev' = Apply(dev, lg)
           /\ constructed' = ~Failed(fail, plan)
           /\ last' = Outcome("construct", "", 0, Failed(fail, plan), 0, -1)
    /\ cal_value' = 0
    /\ current_lsb' = 0
    /\ power_lsb' = 0
    /\ lastSet' = 0
    /\ lastLsb' = [current |-> 0, power |-> 0]
    /\ pre' = Snapshot
    /\ nops' = nops + 1

\* SetCalibration caching the value only once the register write succeeded
SetCalibration_WriteFirst(v, fail) ==
    /\ constructed
    /\ nops < MaxOps
    /\ LET plan == CalibrationPlan(dev, v)
           lg == Issue(plan, fail)
       IN  /\ log' = lg
           /\ dev' = Apply(dev, lg)
           /\ cal_value' = IF Failed(fail, plan) THEN cal_value ELSE v
           /\ last' = Outcome("set_calibration", "", v, Failed(fail, plan), 0, -1)
    /\ lastSet' = v
    /\ pre' = Snapshot
    /\ nops' = nops + 1
    /\ UNCHANGED <<constructed, current_lsb, power_lsb, lastLsb>>

\* calibration setter: cache first, then write the register
SetCalibration(v, fail) ==
    /\ constructed
    /\ nops < MaxOps
    /\ cal_value' = v
    /\ LET plan == CalibrationPlan(dev, cal_value')
           lg == Issue(plan, fail)
       IN  /\ log' = lg
           /\ dev' = Apply(dev, lg)
           /\ last' = Outcome("set_calibration", "", v, Failed(fail, plan), 0, -1)
    /\ lastSet' = v
    /\ pre' = Snapshot
    /\ nops' = nops + 1
    /\ UNCHANGED <<constructed, current_lsb, power_lsb, lastLsb>>

\* calibration getter: the cached value, no bus traffic
GetCalibration ==
    /\ constructed
    /\ nops < MaxOps
    /\ log' = <<>>
    /\ last' = Outcome("calibration", "", 0, FALSE, cal_value, -1)
    /\ pre' = Snapshot
    /\ nops' = nops + 1
    /\ UNCHANGED <<dev, constructed, cal_value, current_lsb, power_lsb, lastSet, lastLsb>>

\* Measure carrying on with the rest of the plan when a transaction failed
Measure_CarryOn(op, plan, fail, signed, lsb) ==
    /\ constructed
    /\ nops < MaxOps
    /\ LET lg == IF Failed(fail, plan)
                 THEN Issue(plan, fail) \o SubSeq(plan, fail + 1, Len(plan))
                 ELSE plan
           failed == Failed(fail, plan) /\ fail = Len(plan)
           raw == IF failed THEN 0
                  ELSE IF signed THEN UnpackSigned(ReadData(lg))
                  ELSE UnpackUnsigned(ReadData(lg))
       IN  /\ log' = lg
           /\ dev' = Apply(dev, lg)
           /\ last' = Outcome(op, "", 0, failed, raw * lsb, CalAtRead(dev, lg))
    /\ pre' = Snapshot
    /\ nops' = nops + 1
    /\ UNCHANGED <<constructed, cal_value, current_lsb, power_lsb, lastSet, lastLsb>>

\* a read-only scaled accessor: issue the plan, decode the data of the final
\* read and scale it
Measure(op, plan, fail, signed, lsb) ==
    /\ constructed
    /\ nops < MaxOps
    /\ LET lg == Issue(plan, fail)
           failed == Failed(fail, plan)
           raw == IF failed THEN 0
                  ELSE IF signed THEN UnpackSigned(ReadData(lg))
                  ELSE UnpackUnsigned(ReadData(lg))
       IN  /\ log' = lg
           /\ dev' = Apply(dev, lg)
           /\ last' = Outcome(op, "", 0, failed, raw * lsb, CalAtRead(dev, lg))
    /\ pre' = Snapshot
    /\ nops' = nops + 1
    /\ UNCHANGED <<constructed, cal_value, current_lsb, power_lsb, lastSet, lastLsb>>

\* Current decoding the register as unsigned
Current_Unsigned(fail) ==
    Measure("current", CurrentPlan(dev, cal_value), fail, FALSE, current_lsb)

Current(fail) ==
    Measure("current", CurrentPlan(dev, cal_value), fail, TRUE, current_lsb)

Power(fail) ==
    Measure("power", PowerPlan(dev, cal_value), fail, FALSE, power_lsb)

ShuntVoltage(fail) ==
    Measure("shunt_voltage", ShuntVoltagePlan(dev), fail, TRUE, SHUNT_LSB)

BusVoltage(fail) ==
    Measure("bus_voltage", BusVoltagePlan(dev), fail, TRUE, BUS_LSB)

\* assignment to a configuration field
SetField(f, v, fail) ==
    /\ constructed
    /\ nops < MaxOps
    /\ LET plan == SetFieldPlan(dev, f, v)
           lg == Issue(plan, fail)
       IN  /\ log' = lg
           /\ dev' = Apply(dev, lg)
           /\ last' = Outcome("set_field", f, v, Failed(fail, plan), 0, -1)
    /\ pre' = Snapshot
    /\ nops' = nops + 1
    /\ UNCHANGED <<constructed, cal_value, current_lsb, power_lsb, lastSet, lastLsb>>

\* read of a configuration field
GetField(f, fail) ==
    /\ constructed
    /\ nops < MaxOps
    /\ LET plan == GetFieldPlan(dev, f)
           lg == Issue(plan, fail)
           failed == Failed(fail, plan)
           val == IF failed THEN 0
                  ELSE ReadBits(FromBytes(ReadData(lg)), FieldWidth(f),
                                FieldOffset(f), FieldSigned(f))
       IN  /\ log' = lg
           /\ dev' = Apply(dev, lg)
           /\ last' = Outcome("get_field", f, 0, failed, val, -1)
    /\ pre' = Snapshot
    /\ nops' = nops + 1
    /\ UNCHANGED <<constructed, cal_value, current_lsb, power_lsb, lastSet, lastLsb>>

\* the caller supplies current_lsb
SetCurrentLsb(l) ==
    /\ constructed
    /\ nops < MaxOps
    /\ current_lsb' = l
    /\ lastLsb' = [lastLsb EXCEPT !.current = l]
    /\ log' = <<>>
    /\ last' = Outcome("set_current_lsb", "", l, FALSE, 0, -1)
    /\ pre' = Snapshot
    /\ nops' = nops + 1
    /\ UNCHANGED <<dev, constructed, cal_value, power_lsb, lastSet>>

\* the caller supplies power_lsb
SetPowerLsb(l) ==
    /\ constructed
    /\ nops < MaxOps
    /\ power_lsb' = l
    /\ lastLsb' = [lastLsb EXCEPT !.power = l]
    /\ log' = <<>>
    /\ last' = Outcome("set_power_lsb", "", l, FALSE, 0, -1)
    /\ pre' = Snapshot
    /\ nops' = nops + 1
    /\ UNCHANGED <<dev, constructed, cal_value, current_lsb, lastSet>>

---------------------------------------------------------------------------
(* The device's own steps *)

\* a load transient resets the device: its calibration register is cleared
DeviceReset ==
    /\ constructed
    /\ dev[REG_CALIBRATION] # 0
    /\ dev' = [dev EXCEPT ![REG_CALIBRATION] = 0]
    /\ log' = <<>>
    /\ last' = [NoOp EXCEPT !.op = "device_reset"]
    /\ pre' = Snapshot
    /\ UNCHANGED <<constructed, cal_value, current_lsb, power_lsb, lastSet, lastLsb, nops>>

\* a conversion completes: the data registers take new contents
DeviceMeasure(sample) ==
    /\ constructed
    /\ DeviceWith(dev[REG_CONFIG], sample, dev[REG_CALIBRATION]) # dev
    /\ dev' = DeviceWith(dev[REG_CONFIG], sample, dev[REG_CALIBRATION])
    /\ log' = <<>>
    /\ last' = [NoOp EXCEPT !.op = "device_measure"]
    /\ pre' = Snapshot
    /\ UNCHANGED <<constructed, cal_value, current_lsb, power_lsb, lastSet, lastLsb, nops>>

---------------------------------------------------------------------------
(* Initial states and specifications *)

\* contents the configuration register may hold when the driver starts
ConfigSamples == {16679, 43690}

\* contents of the configuration register the field accessors start from
CfgContents == {0, 65535, 16679, 43690, 21845, 28672, 36863, 3640}

\* contents the device's calibration register may hold when the driver starts
CalRegSamples == {0, 1234}

\* a powered device no driver has been constructed for
Unconstructed(d) ==
    /\ dev = d
    /\ constructed = FALSE
    /\ cal_value = 0
    /\ current_lsb = 0
    /\ power_lsb = 0
    /\ log = <<>>
    /\ last = NoOp
    /\ pre = NoHistory(d)
    /\ lastSet = 0
    /\ lastLsb = [current |-> 0, power |-> 0]
    /\ nops = 0

\* the state right after INA226.__init__ returned on device d
Constructed(d) ==
    /\ dev = Apply(d, ConstructPlan(d))
    /\ constructed = TRUE
    /\ cal_value = 0
    /\ current_lsb = 0
    /\ power_lsb = 0
    /\ log = ConstructPlan(d)
    /\ last = Outcome("construct", "", 0, FALSE, 0, -1)
    /\ pre = NoHistory(d)
    /\ lastSet = 0
    /\ lastLsb = [current |-> 0, power |-> 0]
    /\ nops = 0

\* Calibration, current and power: the handle in use while the device resets
\* and converts on its own.
Init ==
    \E c \in ConfigSamples, s \in MeasureSamples, k \in CalRegSamples :
        Constructed(DeviceWith(c, s, k))

Next ==
    \/ \E v \in CalValues, fail \in 0 .. 1 : SetCalibration(v, fail)
    \/ GetCalibration
    \/ \E fail \in 0 .. 2 : Current(fail)
    \/ \E fail \in 0 .. 2 : Power(fail)
    \/ \E l \in LsbValues : SetCurrentLsb(l)
    \/ \E l \in LsbValues : SetPowerLsb(l)
    \/ DeviceReset
    \/ \E s \in MeasureSamples : DeviceMeasure(s)

Spec == Init /\ [][Next]_vars

\* Every accessor under every transport failure, on one device content.
InitFail ==
    Constructed(DeviceWith(16679, <<65436, 8000, 1200, 300>>, 0))

NextFail ==
    \/ \E fail \in 0 .. 1 : SetCalibration(500, fail)
    \/ GetCalibration
    \/ \E fail \in 0 .. 2 : Current(fail)
    \/ \E fail \in 0 .. 2 : Power(fail)
    \/ \E fail \in 0 .. 1 : ShuntVoltage(fail)
    \/ \E fail \in 0 .. 1 : BusVoltage(fail)
    \/ \E f \in Fields, fail \in 0 .. 2 : SetField(f, 1, fail)
    \/ \E f \in Fields, fail \in 0 .. 1 : GetField(f, fail)
    \/ SetCurrentLsb(1)
    \/ SetPowerLsb(1)

SpecFail == InitFail /\ [][NextFail]_vars

\* Construction, from every 16-bit content of the configuration register.
InitCtor ==
    \E c \in Word : Unconstructed(DeviceWith(c, <<0, 0, 0, 0>>, 1234))

NextCtor == Construct(0)

SpecCtor == InitCtor /\ [][NextCtor]_vars

\* Construction followed by writes and reads of the configuration fields.
InitCfg ==
    \E c \in CfgContents : Unconstructed(DeviceWith(c, <<0, 0, 0, 0>>, 0))

NextCfg ==
    \/ \E fail \in 0 .. 6 : Construct(fail)
    \/ \E f \in Fields : \E v \in FieldValues(f) : SetField(f, v, 0)
    \/ \E f \in Fields : GetField(f, 0)

SpecCfg == InitCfg /\ [][NextCfg]_vars

\* The voltage accessors, on every 16-bit content of their registers
\* (transport failures of these accessors are part of SpecFail).
InitVolt ==
    \E r \in Word : Constructed(DeviceWith(0, <<r, 65535 - r, 0, 0>>, 0))

NextVolt ==
    \/ ShuntVoltage(0)
    \/ BusVoltage(0)

SpecVolt == InitVolt /\ [][NextVolt]_vars

---------------------------------------------------------------------------
(* Properties *)

\* two's-complement reading of a 16-bit content
AsInt16(u) == IF u >= 32768 THEN u - 65536 ELSE u

\* the two bytes of a 16-bit content, most significant first
BigEndian(u) == << u \div 256, u % 256 >>

C2_CalibrationInPlaceAtRead ==
    (last.op \in {"current", "power"} /\ last.calAtRead # -1) =>
        last.calAtRead = cal_value

\* C2 witness: the device was reset right before a current read, and the read
\* still found the cached calibration in the register
C2_Witness ==
    /\ last.op = "current"
    /\ pre.op = "device_reset"
    /\ pre.calreg = 0
    /\ cal_value = 500
    /\ last.calAtRead = 500
    /\ last.ret = "ok"

\* C3: set_calibration(v) caches v and writes v to register 0x05 in the same
\* call; the getter returns the value most recently passed to the setter (0 if
\* never called) with no bus traffic, also after a device reset and after a
\* failed write.
C3_CalibrationCache ==
    /\ constructed => cal_value = lastSet
    /\ last.op = "set_calibration" =>
          /\ cal_value = last.arg
          /\ Len(log) = 1
          /\ log[1].op = "write"
          /\ log[1].reg = 5
          /\ log[1].data = BigEndian(last.arg)
          /\ last.ret = "ok" => dev[5] = last.arg
    /\ last.op = "calibration" =>
          /\ last.ret = "ok"
          /\ last.val = lastSet
          /\ log = <<>>

\* C3 witness: the getter returns 500 right after a set_calibration(500) whose
\* bus write failed
C3_Witness ==
    /\ last.op = "calibration"
    /\ pre.op = "set_calibration"
    /\ pre.ret = "TransportError"
    /\ pre.arg = 500
    /\ last.val = 500
    /\ dev[5] # 500

\* C9: a current read returns the signed content of register 0x04 times
\* current_lsb; set_calibration and the current/power reads leave current_lsb
\* and power_lsb alone, which are 0 from construction until the caller sets
\* them.
C9_CurrentScaled ==
    /\ (last.op = "current" /\ last.ret = "ok") =>
          last.val = AsInt16(dev[4]) * current_lsb
    /\ last.op \in {"set_calibration", "current", "power"} =>
          (current_lsb = pre.clsb /\ power_lsb = pre.plsb)
    /\ constructed => (current_lsb = lastLsb.current /\ power_lsb = lastLsb.power)

\* C9 witness: set_calibration(2048), current_lsb = 0.1, register 0x04 holding
\* 300: the read returns 300 tenths, i.e. 30.0 mA
C9_Witness ==
    /\ lastSet = 2048
    /\ current_lsb = 1
    /\ dev[4] = 300
    /\ last.op = "current"
    /\ last.ret = "ok"
    /\ last.val = 300

\* C7: a transport failure is propagated and never retried: the failing
\* transaction is the last one the call issues.  When the calibration write
\* of current or power fails, no data register is read, no value is returned
\* and the cached calibration, current_lsb and power_lsb are unchanged.
C7_FailurePropagates ==
    /\ \A i \in 1 .. Len(log) :
          ~log[i].ok => (i = Len(log) /\ last.ret = "TransportError")
    /\ last.ret = "TransportError" => (Len(log) >= 1 /\ ~log[Len(log)].ok)
    /\ (last.op \in {"current", "power"} /\ Len(log) >= 1 /\ ~log[1].ok) =>
          /\ Len(log) = 1
          /\ log[1].op = "write"
          /\ log[1].reg = 5
          /\ last.ret = "TransportError"
          /\ last.calAtRead = -1
          /\ cal_value = pre.cal
          /\ current_lsb = pre.clsb
          /\ power_lsb = pre.plsb

\* C7 witness: a current call whose calibration write failed, with a
\* calibration and a current_lsb set before
C7_Witness ==
    /\ last.op = "current"
    /\ last.ret = "TransportError"
    /\ Len(log) = 1
    /\ log[1].reg = 5
    /\ ~log[1].ok
    /\ cal_value = 500
    /\ current_lsb = 1

Slice(x, o, w) == (x \div Pow2(o)) % Pow2(w)

\* C10: after construction the averaging, bus conversion-time and shunt
\* conversion-time selectors are 5, written in that order; bit 15, bits
\* 14..12 and the mode bits hold their pre-construction values; register 0x05
\* is not written although the cached calibration is 0.
C10_ConstructionConfig ==
    (last.op = "construct" /\ last.ret = "ok") =>
        /\ constructed
        /\ Slice(dev[0], 9, 3) = 5
        /\ Slice(dev[0], 6, 3) = 5
        /\ Slice(dev[0], 3, 3) = 5
        /\ Slice(dev[0], 12, 4) = Slice(pre.cfg, 12, 4)
        /\ Slice(dev[0], 0, 3) = Slice(pre.cfg, 0, 3)
        /\ Len(log) = 6
        /\ \A i \in 1 .. 6 : log[i].reg = 0 /\ log[i].op = (IF i % 2 = 1 THEN "read" ELSE "write")
        /\ Slice(log[2].data[1] * 256 + log[2].data[2], 9, 3) = 5
        /\ Slice(log[2].data[1] * 256 + log[2].data[2], 0, 9) = Slice(pre.cfg, 0, 9)
        /\ Slice(log[4].data[1] * 256 + log[4].data[2], 6, 3) = 5
        /\ Slice(log[4].data[1] * 256 + log[4].data[2], 0, 6) = Slice(pre.cfg, 0, 6)
        /\ dev[5] = pre.calreg
        /\ cal_value = 0

\* C10 witness: construction on a register of all ones leaves 0xFB6F, with a
\* non-zero calibration register untouched
C10_Witness ==
    /\ last.op = "construct"
    /\ last.ret = "ok"
    /\ pre.cfg = 65535
    /\ dev[0] = 64367
    /\ dev[5] = 1234
    /\ cal_value = 0

\* width and offset of the configuration fields as the register map states them
MapWidth(f) == IF f = "reset" THEN 1 ELSE 3

MapOffset(f) ==
    CASE f = "reset" -> 15
      [] f = "num_averages" -> 9
      [] f = "bus_conv_time" -> 6
      [] f = "shunt_conv_time" -> 3
      [] f = "mode" -> 0

Fits(f, v) == v \in 0 .. (Pow2(MapWidth(f)) - 1)

\* C4: writing a field with a value that fits its width leaves every bit of
\* the configuration register outside [offset, offset+width) as it was and
\* writes no register other than 0x00.
C4_FieldWriteFrame ==
    (last.op = "set_field" /\ last.ret = "ok" /\ Fits(last.field, last.arg)) =>
        /\ \A i \in 0 .. 15 :
              (i < MapOffset(last.field)
                 \/ i >= MapOffset(last.field) + MapWidth(last.field))
              => Bit(dev[0], i) = Bit(pre.cfg, i)
        /\ \A i \in 1 .. Len(log) : log[i].op = "write" => log[i].reg = 0
        /\ \E i \in 1 .. Len(log) : log[i].op = "write"
        /\ dev[5] = pre.calreg

\* C4 witness: num_averages = 2 written over a register whose neighbouring
\* bits 12 and 8 are set
C4_Witness ==
    /\ last.op = "set_field"
    /\ last.ret = "ok"
    /\ last.field = "num_averages"
    /\ last.arg = 2
    /\ pre.cfg = 64367
    /\ dev[0] = 62831

\* C5: reading a field right after writing a value that fits returns that
\* value as an unsigned number.
C5_FieldRoundTrip ==
    (/\ last.op = "get_field"
     /\ last.ret = "ok"
     /\ pre.op = "set_field"
     /\ pre.ret = "ok"
     /\ pre.field = last.field
     /\ Fits(pre.field, pre.arg)) => last.val = pre.arg

\* C5 witness: a 3-bit field written with 0b100 reads back as 4
C5_Witness ==
    /\ last.op = "get_field"
    /\ last.ret = "ok"
    /\ pre.op = "set_field"
    /\ pre.field = "mode"
    /\ last.field = "mode"
    /\ pre.arg = 4
    /\ last.val = 4

\* C6: setting a field to a value that does not fit its width fails with an
\* invalid-field-value error before any bus write, and the configuration
\* register keeps its content.
C6_OversizedValueRejected ==
    (last.op = "set_field" /\ ~Fits(last.field, last.arg)) =>
        /\ last.ret = "InvalidFieldValue"
        /\ \A i \in 1 .. Len(log) : log[i].op # "write"
        /\ dev[0] = pre.cfg

====
